---- MODULE Spec2Model ----
(***************************************************************************)
(* A model of the eBird alert scraper (src/scraper.py): the extraction     *)
(* strategy chain (scrape_alerts and its three parsers), the merge with    *)
(* the persisted history (merge_sightings), the history file               *)
(* (load_existing_sightings / save_sightings) and the run of main.         *)
(*                                                                         *)
(* Three specifications share the module:                                  *)
(*   Spec        runs of main, one after the other, on one history file;   *)
(*   SpecExtract scrape_alerts applied to a parsed document;               *)
(*   SpecMerge   merge_sightings applied once and then again.              *)
(*                                                                         *)
(* Abstractions.  Text is drawn from a small vocabulary; len() and the     *)
(* slice [:100] are tables over it.  A sighting's id is the tuple of the   *)
(* four fields the source hashes (md5 is taken to be collision free on     *)
(* them).  scraped_at is the number of the run.  The optional species_url  *)
(* and location_url keys are left out: nothing below reads them.  An       *)
(* element whose extraction raises a Python Exception carries              *)
(* raises = TRUE.                                                          *)
(***************************************************************************)
EXTENDS Integers, Sequences, FiniteSets, TLC

VARIABLES
    \* ---- main
    pc,             \* where the current run of main is ("idle": between runs)
    runs,           \* runs started so far; the clock behind scraped_at
    file,           \* SIGHTINGS_FILE: [state, recs]
    report,         \* OUTPUT_HTML: [written, sightings, total_count]
    new_sightings,  \* main's local new_sightings
    existing,       \* main's local existing
    merged,         \* main's local merged
    exitStatus,     \* exit status of the last finished run (-1 while running)
    failure,        \* history: why the last finished run ended
    fileAtStart,    \* history: file when the run started
    reportAtStart,  \* history: report when the run started
    saved,          \* history: save_sightings was entered in this run
    rendered,       \* history: generate_html was executed in this run
    \* ---- scrape_alerts on its own
    doc,            \* the parsed document: [rows, sections, links]
    result,         \* what scrape_alerts did with doc
    xphase,         \* "parsed" | "extracted"
    \* ---- merge_sightings on its own
    m_existing,     \* the argument existing
    m_incoming,     \* the argument new
    m_once,         \* merge_sightings(existing, new)
    m_twice,        \* merge_sightings(m_once, new)
    m_added,        \* the counts printed, one for each application
    mphase          \* "start" | "once" | "twice"

mainVars == <<pc, runs, file, report, new_sightings, existing, merged,
              exitStatus, failure, fileAtStart, reportAtStart, saved, rendered>>
extractVars == <<doc, result, xphase>>
mergeVars == <<m_existing, m_incoming, m_once, m_twice, m_added, mphase>>
vars == <<mainVars, extractVars, mergeVars>>

----------------------------------------------------------------------------
\* Bounds of the model.
MaxRuns == 3
MaxRows == 2
MaxSections == 1
MaxLinks == 1
MaxMainRows == 2
MaxExisting == 2
MaxIncoming == 3

\* Program constants.
MinSectionLen == 3
SpeciesLimit == 100
MinLinkLen == 2

SeqsUpTo(S, n) == UNION {[1..k -> S] : k \in 0..n}

----------------------------------------------------------------------------
\* Text.

\* Python's None where the source has an element or a string or None.
None == "<None>"

\* A sighting that is None (parse_* returned None).
NoSighting == [is_none |-> TRUE]

\* len(text) over the vocabulary.
StrLen(s) ==
    CASE s = "" -> 0
      [] s = "Em" -> 2
      [] s = "Jay" -> 3
      [] s = "Owl" -> 3
      [] s = "Long100" -> 100
      [] s = "Long101" -> 101
      [] OTHER -> 4

\* text[:n] over the vocabulary: "Long100" is the first 100 characters of
\* "Long101".
Slice(s, n) ==
    IF StrLen(s) <= n THEN s
    ELSE IF s = "Long101" /\ n = 100 THEN "Long100"
    ELSE s

----------------------------------------------------------------------------
\* Identity.

\* md5(f"{species}_{location}_{date}_{observer}")[:12]: a function of these
\* four fields and of nothing else.
generate_sighting_id(sighting) ==
    <<sighting.species, sighting.location, sighting.date, sighting.observer>>

WithId(sighting) ==
    [species |-> sighting.species, location |-> sighting.location,
     date |-> sighting.date, observer |-> sighting.observer,
     count |-> sighting.count, scraped_at |-> sighting.scraped_at,
     id |-> generate_sighting_id(sighting)]

----------------------------------------------------------------------------
\* The parsers.

\* A faulty parse_observation_row: the date default of the fallback
\* strategies ("Recent") used for a row too.
parse_observation_row_recent(row, timestamp) ==
    IF row.raises THEN NoSighting
    ELSE IF row.species = None \/ row.species = "" THEN NoSighting
    ELSE WithId([species |-> row.species,
                 location |-> IF row.location # None THEN row.location ELSE "Unknown",
                 date |-> IF row.date # None THEN row.date ELSE "Recent",
                 observer |-> IF row.observer # None THEN row.observer ELSE "Unknown",
                 count |-> IF row.count # None THEN row.count ELSE "1",
                 scraped_at |-> timestamp])

\* row.f is the text of the element select_one found for field f, or None
\* when it found none.  Whatever is raised inside the try is caught and the
\* row gives None.
parse_observation_row(row, timestamp) ==
    IF row.raises THEN NoSighting
    ELSE IF row.species = None \/ row.species = "" THEN NoSighting
    ELSE WithId([species |-> row.species,
                 location |-> IF row.location # None THEN row.location ELSE "Unknown",
                 date |-> IF row.date # None THEN row.date ELSE "Unknown",
                 observer |-> IF row.observer # None THEN row.observer ELSE "Unknown",
                 count |-> IF row.count # None THEN row.count ELSE "1",
                 scraped_at |-> timestamp])

\* section.text is section.get_text(" ", strip=True).
parse_species_section(section, timestamp) ==
    IF section.raises THEN NoSighting
    ELSE IF StrLen(section.text) < MinSectionLen THEN NoSighting
    ELSE WithId([species |-> Slice(section.text, SpeciesLimit),
                 location |-> "See details",
                 date |-> "Recent",
                 observer |-> "Unknown",
                 count |-> "1",
                 scraped_at |-> timestamp])

\* The loop of parse_generic_alerts from link i on.  acc is
\* [raised, found]; no try surrounds the body of the loop, so what one link
\* raises leaves the function.
RECURSIVE GenericLoop(_, _, _, _)
GenericLoop(links, i, timestamp, acc) ==
    IF i > Len(links) THEN acc
    ELSE IF links[i].raises THEN [raised |-> TRUE, found |-> acc.found]
    ELSE LET species == links[i].text
         IN IF species # "" /\ StrLen(species) > MinLinkLen
            THEN GenericLoop(links, i + 1, timestamp,
                     [raised |-> FALSE,
                      found |-> Append(acc.found,
                          [sighting |-> WithId([species |-> species,
                                                location |-> "Unknown",
                                                date |-> "Recent",
                                                observer |-> "Unknown",
                                                count |-> "1",
                                                scraped_at |-> timestamp]),
                           strategy |-> "generic", index |-> i])])
            ELSE GenericLoop(links, i + 1, timestamp, acc)

parse_generic_alerts(links, timestamp) ==
    GenericLoop(links, 1, timestamp, [raised |-> FALSE, found |-> <<>>])

\* Method 1: the loop over the observation rows from row i on.
RECURSIVE RowLoop(_, _, _, _)
RowLoop(rows, i, timestamp, found) ==
    IF i > Len(rows) THEN found
    ELSE LET sighting == parse_observation_row(rows[i], timestamp)
         IN RowLoop(rows, i + 1, timestamp,
                IF sighting # NoSighting
                THEN Append(found, [sighting |-> sighting, strategy |-> "row", index |-> i])
                ELSE found)

\* Method 2: the loop over the species sections from section i on.
RECURSIVE SectionLoop(_, _, _, _)
SectionLoop(sections, i, timestamp, found) ==
    IF i > Len(sections) THEN found
    ELSE LET sighting == parse_species_section(sections[i], timestamp)
         IN SectionLoop(sections, i + 1, timestamp,
                IF sighting # NoSighting
                THEN Append(found, [sighting |-> sighting, strategy |-> "section", index |-> i])
                ELSE found)

Untag(found) == [i \in 1..Len(found) |-> found[i].sighting]
Origin(found) == [i \in 1..Len(found) |-> <<found[i].strategy, found[i].index>>]

\* A faulty scrape_alerts: Method 2 runs whatever Method 1 found.
scrape_alerts_no_guard(d, timestamp) ==
    LET m1 == RowLoop(d.rows, 1, timestamp, <<>>)
        m2 == SectionLoop(d.sections, 1, timestamp, m1)
        g == parse_generic_alerts(d.links, timestamp)
    IN  IF m2 # <<>>
        THEN [raised |-> FALSE, sightings |-> Untag(m2), origin |-> Origin(m2)]
        ELSE IF g.raised
        THEN [raised |-> TRUE, sightings |-> <<>>, origin |-> <<>>]
        ELSE [raised |-> FALSE, sightings |-> Untag(g.found), origin |-> Origin(g.found)]

\* scrape_alerts from the parsed document on.  origin is history: the
\* strategy and the element each sighting comes from.
scrape_alerts(d, timestamp) ==
    LET m1 == RowLoop(d.rows, 1, timestamp, <<>>)
        m2 == IF m1 = <<>> THEN SectionLoop(d.sections, 1, timestamp, m1) ELSE m1
        g == parse_generic_alerts(d.links, timestamp)
    IN  IF m2 # <<>>
        THEN [raised |-> FALSE, sightings |-> Untag(m2), origin |-> Origin(m2)]
        ELSE IF g.raised
        THEN [raised |-> TRUE, sightings |-> <<>>, origin |-> <<>>]
        ELSE [raised |-> FALSE, sightings |-> Untag(g.found), origin |-> Origin(g.found)]

----------------------------------------------------------------------------
\* The merge.

\* A faulty merge loop: an appended id is not added to existing_ids.
RECURSIVE MergeLoopForgetful(_, _, _)
MergeLoopForgetful(new, i, acc) ==
    IF i > Len(new) THEN acc
    ELSE IF new[i].id \notin acc.existing_ids
         THEN MergeLoopForgetful(new, i + 1,
                  [merged |-> Append(acc.merged, new[i]),
                   existing_ids |-> acc.existing_ids,
                   added |-> acc.added + 1])
         ELSE MergeLoopForgetful(new, i + 1, acc)

\* The loop of merge_sightings from new[i] on; acc is
\* [merged, existing_ids, added].
RECURSIVE MergeLoop(_, _, _)
MergeLoop(new, i, acc) ==
    IF i > Len(new) THEN acc
    ELSE IF new[i].id \notin acc.existing_ids
         THEN MergeLoop(new, i + 1,
                  [merged |-> Append(acc.merged, new[i]),
                   existing_ids |-> acc.existing_ids \cup {new[i].id},
                   added |-> acc.added + 1])
         ELSE MergeLoop(new, i + 1, acc)

\* A faulty merge: existing_ids starts empty instead of holding the ids of
\* existing.
MergeRunNoExistingIds(old, new) ==
    MergeLoop(new, 1, [merged |-> old, existing_ids |-> {}, added |-> 0])

\* merge_sightings with what it prints: [merged, existing_ids, added].
MergeRun(old, new) ==
    MergeLoop(new, 1, [merged |-> old,
                       existing_ids |-> {old[k].id : k \in 1..Len(old)},
                       added |-> 0])

merge_sightings(old, new) == MergeRun(old, new).merged

\* The number merge_sightings prints in "Added {added} new sightings".
merge_added(old, new) == MergeRun(old, new).added

----------------------------------------------------------------------------
\* The history file and the report.

NoFile == [state |-> "absent", recs |-> <<>>]

\* json.load of the file: a file whose write did not finish (empty or cut
\* short) is no JSON document and json.load raises.
load_existing_sightings(f) ==
    CASE f.state = "absent" -> [raised |-> FALSE, value |-> <<>>]
      [] f.state = "complete" -> [raised |-> FALSE, value |-> f.recs]
      [] OTHER -> [raised |-> TRUE, value |-> <<>>]

\* sorted(..., reverse=True) is stable: x goes behind every element whose
\* key is not smaller.
RECURSIVE InsertDescending(_, _)
InsertDescending(sorted, x) ==
    IF sorted = <<>> THEN <<x>>
    ELSE IF Head(sorted).scraped_at >= x.scraped_at
         THEN <<Head(sorted)>> \o InsertDescending(Tail(sorted), x)
         ELSE <<x>> \o sorted

RECURSIVE SortedByScrapedAt(_, _)
SortedByScrapedAt(sightings, i) ==
    IF i = 0 THEN <<>>
    ELSE InsertDescending(SortedByScrapedAt(sightings, i - 1), sightings[i])

NoReport == [written |-> FALSE, sightings |-> <<>>, total_count |-> 0]

\* What generate_html writes to OUTPUT_HTML.
generate_html(sightings) ==
    [written |-> TRUE,
     sightings |-> SortedByScrapedAt(sightings, Len(sightings)),
     total_count |-> Len(sightings)]

----------------------------------------------------------------------------
\* The inputs.

Row(species, location, date, observer, count) ==
    [species |-> species, location |-> location, date |-> date,
     observer |-> observer, count |-> count, raises |-> FALSE]

RaisingRow ==
    [species |-> None, location |-> None, date |-> None,
     observer |-> None, count |-> None, raises |-> TRUE]

\* The rows of SpecExtract: a row without species text, rows with a species
\* and every field, one field or all four fields missing, and a row whose
\* parsing raises.
RowElems ==
    {Row(None, "Park", "Mon", "Ann", "2"), RaisingRow}
    \cup {Row(sp, "Park", "Mon", "Ann", "2") : sp \in {"Jay", "Owl"}}
    \cup {Row(sp, None, "Mon", "Ann", "2") : sp \in {"Jay", "Owl"}}
    \cup {Row(sp, "Park", None, "Ann", "2") : sp \in {"Jay", "Owl"}}
    \cup {Row(sp, "Park", "Mon", None, "2") : sp \in {"Jay", "Owl"}}
    \cup {Row(sp, "Park", "Mon", "Ann", None) : sp \in {"Jay", "Owl"}}
    \cup {Row(sp, None, None, None, None) : sp \in {"Jay", "Owl"}}

SectionElems ==
    {[text |-> tx, raises |-> FALSE] : tx \in {"Em", "Jay", "Long101"}}
    \cup {[text |-> "", raises |-> TRUE]}

LinkElems ==
    {[text |-> tx, raises |-> FALSE] : tx \in {"Em", "Owl"}}
    \cup {[text |-> "", raises |-> TRUE]}

Documents ==
    [rows : SeqsUpTo(RowElems, MaxRows),
     sections : SeqsUpTo(SectionElems, MaxSections),
     links : SeqsUpTo(LinkElems, MaxLinks)]

\* The documents of Spec: fewer kinds of element, the same three strategies.
MainRowElems ==
    {Row(None, "Park", "Mon", "Ann", "2"),
     Row("Jay", "Park", "Mon", "Ann", "2"), Row("Jay", "Park", "Mon", "Ann", None),
     Row("Owl", "Park", "Mon", "Ann", "2")}

MainDocuments ==
    [rows : SeqsUpTo(MainRowElems, MaxMainRows),
     sections : SeqsUpTo({[text |-> "Jay", raises |-> FALSE]}, 1),
     links : SeqsUpTo({[text |-> "Owl", raises |-> FALSE],
                       [text |-> "", raises |-> TRUE]}, 1)]

\* os.environ.get: None when the variable is not set.
EnvValues == {None, "", "secret"}

\* The records of SpecMerge: three ids, two records to an id.
MergeRecords == [id : {"a1", "b2", "c3"}, count : {"1", "2"}]

----------------------------------------------------------------------------
\* main.

\* login_to_ebird: "raise" when page.goto, the wait for the login form or
\* the wait for the redirect raises; else what it returns.  The click on
\* the sign-in link is inside a try that swallows its failure.
login_to_ebird(goto_ok, form_ok, username_input, password_input, redirect_ok) ==
    IF ~goto_ok \/ ~form_ok THEN "raise"
    ELSE IF username_input /\ password_input
         THEN IF redirect_ok THEN "True" ELSE "raise"
         ELSE "False"

\* The run ends: main returns status, or an exception leaves main (the
\* finally clause closes the browser) and the interpreter exits with 1.
Exit(status, cause) ==
    /\ pc' = "idle"
    /\ exitStatus' = status
    /\ failure' = cause

\* Lines 431-444: the credentials are read and checked, the browser starts.
Start(username, password) ==
    /\ pc = "idle"
    /\ runs < MaxRuns
    /\ runs' = runs + 1
    /\ fileAtStart' = file
    /\ reportAtStart' = report
    /\ saved' = FALSE
    /\ rendered' = FALSE
    /\ new_sightings' = <<>>
    /\ existing' = <<>>
    /\ merged' = <<>>
    /\ IF username \in {None, ""} \/ password \in {None, ""}
       THEN Exit(1, "credentials")
       ELSE pc' = "login" /\ exitStatus' = -1 /\ failure' = "none"
    /\ UNCHANGED <<file, report>>

\* A faulty Login: the return of 1 after a failed login is missing.
LoginNoReturn(goto_ok, form_ok, username_input, password_input, redirect_ok) ==
    /\ pc = "login"
    /\ LET r == login_to_ebird(goto_ok, form_ok, username_input, password_input, redirect_ok)
       IN  CASE r = "raise" -> Exit(1, "retrieval")
             [] r = "False" -> pc' = "scrape" /\ exitStatus' = 1 /\ failure' = "login"
             [] OTHER -> pc' = "scrape" /\ UNCHANGED <<exitStatus, failure>>
    /\ UNCHANGED <<runs, file, report, new_sightings, existing, merged,
                   fileAtStart, reportAtStart, saved, rendered>>

\* Lines 447-449.
Login(goto_ok, form_ok, username_input, password_input, redirect_ok) ==
    /\ pc = "login"
    /\ LET r == login_to_ebird(goto_ok, form_ok, username_input, password_input, redirect_ok)
       IN  CASE r = "raise" -> Exit(1, "retrieval")
             [] r = "False" -> Exit(1, "login")
             [] OTHER -> pc' = "scrape" /\ UNCHANGED <<exitStatus, failure>>
    /\ UNCHANGED <<runs, file, report, new_sightings, existing, merged,
                   fileAtStart, reportAtStart, saved, rendered>>

\* Line 451: scrape_alerts.  page.goto, the wait for the network and the
\* wait for the content raise when they fail; so does an element of the
\* document that parse_generic_alerts cannot handle.
Scrape(goto_ok, idle_ok, content_ok, d) ==
    /\ pc = "scrape"
    /\ IF ~goto_ok \/ ~idle_ok \/ ~content_ok
       THEN Exit(1, "retrieval") /\ UNCHANGED new_sightings
       ELSE LET r == scrape_alerts(d, runs)
            IN  IF r.raised
                THEN Exit(1, "element") /\ UNCHANGED new_sightings
                ELSE /\ new_sightings' = r.sightings
                     /\ pc' = "scraped"
                     /\ UNCHANGED <<exitStatus, failure>>
    /\ UNCHANGED <<runs, file, report, existing, merged,
                   fileAtStart, reportAtStart, saved, rendered>>

\* Lines 453-455: there are new sightings; the history is loaded and merged.
Merge ==
    /\ pc = "scraped"
    /\ new_sightings # <<>>
    /\ LET l == load_existing_sightings(file)
       IN  IF l.raised
           THEN Exit(1, "history") /\ UNCHANGED <<existing, merged>>
           ELSE /\ existing' = l.value
                /\ merged' = merge_sightings(l.value, new_sightings)
                /\ pc' = "save"
                /\ UNCHANGED <<exitStatus, failure>>
    /\ UNCHANGED <<runs, file, report, new_sightings,
                   fileAtStart, reportAtStart, saved, rendered>>

\* Lines 196-197: open(SIGHTINGS_FILE, "w") creates the file or cuts it to
\* nothing.
SaveOpen ==
    /\ pc = "save"
    /\ file' = [state |-> "partial", recs |-> <<>>]
    /\ saved' = TRUE
    /\ pc' = "dump"
    /\ UNCHANGED <<runs, report, new_sightings, existing, merged, exitStatus,
                   failure, fileAtStart, reportAtStart, rendered>>

\* Line 198: json.dump writes the next sighting of the array.
SaveDump ==
    /\ pc = "dump"
    /\ Len(file.recs) < Len(merged)
    /\ file' = [state |-> "partial",
                recs |-> Append(file.recs, merged[Len(file.recs) + 1])]
    /\ UNCHANGED <<pc, runs, report, new_sightings, existing, merged, exitStatus,
                   failure, fileAtStart, reportAtStart, saved, rendered>>

\* Lines 198-199: json.dump closes the array and the with block closes the
\* file.
SaveClose ==
    /\ pc = "dump"
    /\ Len(file.recs) = Len(merged)
    /\ file' = [state |-> "complete", recs |-> file.recs]
    /\ pc' = "render"
    /\ UNCHANGED <<runs, report, new_sightings, existing, merged, exitStatus,
                   failure, fileAtStart, reportAtStart, saved, rendered>>

\* The write fails or the process is stopped while the file is open for
\* writing (a full disk, a signal): the file stays as far as it was written.
SaveFail ==
    /\ pc = "dump"
    /\ Exit(1, "save")
    /\ UNCHANGED <<runs, file, report, new_sightings, existing, merged,
                   fileAtStart, reportAtStart, saved, rendered>>

\* Lines 457 and 470.
Render ==
    /\ pc = "render"
    /\ report' = generate_html(merged)
    /\ rendered' = TRUE
    /\ Exit(0, "none")
    /\ UNCHANGED <<runs, file, new_sightings, existing, merged,
                   fileAtStart, reportAtStart, saved>>

\* A faulty NoNew: with no history either, the run reports a failure.
NoNewFails ==
    /\ pc = "scraped"
    /\ new_sightings = <<>>
    /\ LET l == load_existing_sightings(file)
       IN  IF l.raised
           THEN Exit(1, "history") /\ UNCHANGED <<existing, report, rendered>>
           ELSE /\ existing' = l.value
                /\ report' = IF l.value # <<>> THEN generate_html(l.value)
                                               ELSE generate_html(<<>>)
                /\ rendered' = TRUE
                /\ IF l.value # <<>> THEN Exit(0, "none") ELSE Exit(1, "none")
    /\ UNCHANGED <<runs, file, new_sightings, merged,
                   fileAtStart, reportAtStart, saved>>

\* Lines 458-465 and 470: no new sightings; the report is made from the
\* history, or empty when there is none.
NoNew ==
    /\ pc = "scraped"
    /\ new_sightings = <<>>
    /\ LET l == load_existing_sightings(file)
       IN  IF l.raised
           THEN Exit(1, "history") /\ UNCHANGED <<existing, report, rendered>>
           ELSE /\ existing' = l.value
                /\ report' = IF l.value # <<>> THEN generate_html(l.value)
                                               ELSE generate_html(<<>>)
                /\ rendered' = TRUE
                /\ Exit(0, "none")
    /\ UNCHANGED <<runs, file, new_sightings, merged,
                   fileAtStart, reportAtStart, saved>>

MainInit ==
    /\ pc = "idle"
    /\ runs = 0
    /\ file \in {NoFile, [state |-> "complete", recs |-> <<>>]}
    /\ report = NoReport
    /\ new_sightings = <<>>
    /\ existing = <<>>
    /\ merged = <<>>
    /\ exitStatus = -1
    /\ failure = "none"
    /\ fileAtStart = file
    /\ reportAtStart = report
    /\ saved = FALSE
    /\ rendered = FALSE

\* The variables of the other two specifications at rest.
ExtractIdle ==
    /\ doc = [rows |-> <<>>, sections |-> <<>>, links |-> <<>>]
    /\ result = [raised |-> FALSE, sightings |-> <<>>, origin |-> <<>>]
    /\ xphase = "off"

MergeIdle ==
    /\ m_existing = <<>>
    /\ m_incoming = <<>>
    /\ m_once = <<>>
    /\ m_twice = <<>>
    /\ m_added = <<>>
    /\ mphase = "off"

Init == MainInit /\ ExtractIdle /\ MergeIdle

Next ==
    \/ \E username, password \in EnvValues :
           Start(username, password) /\ UNCHANGED <<extractVars, mergeVars>>
    \/ \E goto_ok, form_ok, username_input, password_input, redirect_ok \in BOOLEAN :
           /\ Login(goto_ok, form_ok, username_input, password_input, redirect_ok)
           /\ UNCHANGED <<extractVars, mergeVars>>
    \/ \E goto_ok, idle_ok, content_ok \in BOOLEAN : \E d \in MainDocuments :
           Scrape(goto_ok, idle_ok, content_ok, d) /\ UNCHANGED <<extractVars, mergeVars>>
    \/ Merge /\ UNCHANGED <<extractVars, mergeVars>>
    \/ SaveOpen /\ UNCHANGED <<extractVars, mergeVars>>
    \/ SaveDump /\ UNCHANGED <<extractVars, mergeVars>>
    \/ SaveClose /\ UNCHANGED <<extractVars, mergeVars>>
    \/ SaveFail /\ UNCHANGED <<extractVars, mergeVars>>
    \/ Render /\ UNCHANGED <<extractVars, mergeVars>>
    \/ NoNew /\ UNCHANGED <<extractVars, mergeVars>>

Spec == Init /\ [][Next]_vars

----------------------------------------------------------------------------
\* scrape_alerts on its own.

Extract ==
    /\ xphase = "parsed"
    /\ result' = scrape_alerts(doc, 1)
    /\ xphase' = "extracted"
    /\ UNCHANGED <<doc, mainVars, mergeVars>>

InitExtract ==
    /\ MainInit /\ file = NoFile
    /\ MergeIdle
    /\ doc \in Documents
    /\ result = [raised |-> FALSE, sightings |-> <<>>, origin |-> <<>>]
    /\ xphase = "parsed"

NextExtract == Extract

SpecExtract == InitExtract /\ [][NextExtract]_vars

----------------------------------------------------------------------------
\* merge_sightings on its own.

MergeOnce ==
    /\ mphase = "start"
    /\ m_once' = merge_sightings(m_existing, m_incoming)
    /\ m_added' = <<merge_added(m_existing, m_incoming)>>
    /\ mphase' = "once"
    /\ UNCHANGED <<m_existing, m_incoming, m_twice, mainVars, extractVars>>

MergeTwice ==
    /\ mphase = "once"
    /\ m_twice' = merge_sightings(m_once, m_incoming)
    /\ m_added' = Append(m_added, merge_added(m_once, m_incoming))
    /\ mphase' = "twice"
    /\ UNCHANGED <<m_existing, m_incoming, m_once, mainVars, extractVars>>

InitMerge ==
    /\ MainInit /\ file = NoFile
    /\ ExtractIdle
    /\ m_existing \in SeqsUpTo(MergeRecords, MaxExisting)
    /\ m_incoming \in SeqsUpTo(MergeRecords, MaxIncoming)
    /\ m_once = <<>>
    /\ m_twice = <<>>
    /\ m_added = <<>>
    /\ mphase = "start"

NextMerge == MergeOnce \/ MergeTwice

SpecMerge == InitMerge /\ [][NextMerge]_vars

----------------------------------------------------------------------------
\* Properties.

Ids(s) == {s[k].id : k \in 1..Len(s)}

NoDuplicateIds(s) == \A i, j \in 1..Len(s) : s[i].id = s[j].id => i = j

IsPrefix(a, b) == Len(a) <= Len(b) /\ SubSeq(b, 1, Len(a)) = a

Finished == pc = "idle" /\ runs > 0

\* C1: whatever the batches were, the history file never holds two records
\* with the same id.
C1_PersistedIdsUnique == NoDuplicateIds(file.recs)

\* A second run has saved a history of two records, its batch repeating an
\* id within itself and holding an id the history had.
C1_Witness ==
    /\ Finished /\ runs >= 2 /\ exitStatus = 0
    /\ file.state = "complete" /\ Len(file.recs) >= 2
    /\ \E i, j \in 1..Len(new_sightings) :
           i < j /\ new_sightings[i].id = new_sightings[j].id
    /\ \E i \in 1..Len(new_sightings) : new_sightings[i].id \in Ids(fileAtStart.recs)

\* The positions of new whose record merge_sightings has to append: the id
\* is not in old and no earlier record of new has it.
FirstNew(old, new) ==
    {i \in 1..Len(new) :
        /\ new[i].id \notin Ids(old)
        /\ \A j \in 1..(i - 1) : new[j].id # new[i].id}

\* The k-th smallest element of a set of numbers.
KthOf(S, k) == CHOOSE i \in S : Cardinality({j \in S : j < i}) = k - 1

\* C2: merge_sightings(existing, new) is existing, in its order, followed by
\* the first occurrence of each record of new whose id is not in existing,
\* in the order of new; every id of existing is in the result, every id of
\* new that is not in existing is in the appended part exactly once.
C2_MergeIsExistingThenFirstNew ==
    mphase \in {"once", "twice"} =>
        LET keep == FirstNew(m_existing, m_incoming)
            n == Len(m_existing)
        IN  /\ Len(m_once) = n + Cardinality(keep)
            /\ SubSeq(m_once, 1, n) = m_existing
            /\ \A k \in 1..Cardinality(keep) : m_once[n + k] = m_incoming[KthOf(keep, k)]
            /\ Ids(m_existing) \subseteq Ids(m_once)
            /\ \A x \in Ids(m_incoming) \ Ids(m_existing) :
                   Cardinality({k \in (n + 1)..Len(m_once) : m_once[k].id = x}) = 1

\* A merge in which new holds a new id twice, with different records, and
\* a known id; one record is appended.
C2_Witness ==
    /\ mphase = "once"
    /\ Len(m_once) = Len(m_existing) + 1
    /\ m_existing # <<>>
    /\ \E i, j, k \in 1..Len(m_incoming) :
           /\ i < j /\ m_incoming[i].id = m_incoming[j].id
           /\ m_incoming[i] # m_incoming[j]
           /\ m_incoming[i].id \notin Ids(m_existing)
           /\ m_incoming[k].id \in Ids(m_existing)

\* C3: merging the same batch a second time changes nothing and appends
\* nothing.
C3_MergeIdempotent ==
    mphase = "twice" => m_twice = m_once /\ m_added[2] = 0

\* The first merge appended records and the second one ran.
C3_Witness ==
    /\ mphase = "twice"
    /\ m_added[1] >= 2
    /\ m_existing # <<>>

\* The rows and the sections of doc that give a sighting.
RowsThatParse ==
    {i \in 1..Len(doc.rows) : parse_observation_row(doc.rows[i], 1) # NoSighting}

SectionsThatParse ==
    {i \in 1..Len(doc.sections) : parse_species_section(doc.sections[i], 1) # NoSighting}

StrategiesUsed == {result.origin[i][1] : i \in 1..Len(result.origin)}

\* C4 as stated: when the document has an element the selectors of the
\* observation-row strategy match, no sighting of the output comes from a
\* fallback strategy.
C4_MatchedRowsExcludeFallback ==
    (xphase = "extracted" /\ doc.rows # <<>>) => StrategiesUsed \subseteq {"row"}

\* C4 amended: when the observation-row strategy yields a sighting, every
\* sighting of the output comes from it; a fallback strategy contributes
\* only when every earlier strategy yielded nothing, and then the output is
\* its alone.
C4_FirstNonEmptyStrategyWins ==
    xphase = "extracted" =>
        /\ RowsThatParse # {} => StrategiesUsed = {"row"}
        /\ "section" \in StrategiesUsed =>
               RowsThatParse = {} /\ StrategiesUsed = {"section"}
        /\ "generic" \in StrategiesUsed =>
               /\ RowsThatParse = {} /\ SectionsThatParse = {}
               /\ StrategiesUsed = {"generic"}

\* The rows gave a sighting while a section and a link would have given one
\* too.
C4_Witness ==
    /\ xphase = "extracted"
    /\ RowsThatParse # {} /\ SectionsThatParse # {}
    /\ \E i \in 1..Len(doc.links) : doc.links[i].text = "Owl"
    /\ StrategiesUsed = {"row"}
    /\ Len(result.sightings) = Cardinality(RowsThatParse)

FatalCauses == {"credentials", "login", "retrieval"}

\* C5: a run that meets missing credentials, a failed login or a failed
\* retrieval step is over at once, with a non-zero exit status, has executed
\* neither save_sightings nor generate_html and leaves the history file and
\* the report as they were.
C5_FatalRunTouchesNothing ==
    failure \in FatalCauses =>
        /\ pc = "idle"
        /\ exitStatus # 0
        /\ ~saved /\ ~rendered
        /\ file = fileAtStart
        /\ report = reportAtStart

\* A run ended by a failed login, with a history and a report from before.
C5_Witness ==
    /\ Finished /\ failure = "login" /\ exitStatus = 1
    /\ file.state = "complete" /\ file.recs # <<>>
    /\ report.written

\* The run went through the branch for no new sightings to its end.
EndedWithoutNew ==
    Finished /\ failure = "none" /\ rendered /\ new_sightings = <<>>

\* C6 as stated: a run that extracts nothing and finds the history empty
\* exits with 1; one that extracts nothing and finds a history exits with 0.
C6_NoDataAtAllExitsOne ==
    EndedWithoutNew => exitStatus = (IF existing = <<>> THEN 1 ELSE 0)

\* C6 amended: a run that extracts nothing exits with 0 whether the history
\* is empty or not, leaves the history file alone and writes the report from
\* the history (an empty report when the history is empty).
C6_NoNewExitsZero ==
    EndedWithoutNew =>
        /\ exitStatus = 0
        /\ ~saved /\ file = fileAtStart
        /\ report = generate_html(existing)
        /\ existing = load_existing_sightings(fileAtStart).value

\* A run extracted nothing, found no history and wrote an empty report.
C6_Witness ==
    /\ EndedWithoutNew
    /\ existing = <<>>
    /\ report.written /\ report.total_count = 0
    /\ exitStatus = 0

\* The elements of the strategy that gave the output which raise nothing and
\* give a sighting.
SucceedingElements ==
    IF RowsThatParse # {} THEN RowsThatParse
    ELSE IF SectionsThatParse # {} THEN SectionsThatParse
    ELSE {i \in 1..Len(doc.links) :
             /\ ~doc.links[i].raises
             /\ StrLen(doc.links[i].text) > MinLinkLen}

\* C7: in each of the three strategies a failure inside the extraction of
\* one element does not abort the batch: scrape_alerts does not raise, and
\* the elements that extract are in the output, in document order.
C7_ElementFailureIsolated ==
    xphase = "extracted" =>
        /\ ~result.raised
        /\ {result.origin[i][2] : i \in 1..Len(result.origin)} = SucceedingElements
        /\ \A i, j \in 1..Len(result.origin) :
               i < j => result.origin[i][2] < result.origin[j][2]

C9_SaveIsAtomic ==
    saved =>
        LET l == load_existing_sightings(file)
        IN  ~l.raised /\ l.value \in {existing, merged}

\* C10: when a run is over, the history from before the run is a prefix of
\* the history after it, and a run that extracted nothing has not written
\* the history file.
C10_HistoryOnlyGrows ==
    Finished =>
        /\ ~load_existing_sightings(file).raised
        /\ IsPrefix(fileAtStart.recs, file.recs)
        /\ new_sightings = <<>> => ~saved /\ file = fileAtStart

====
